---- MODULE Spec2Model ----
(***************************************************************************)
(* Model of pyfbx_render.py: main() slices and parses the command line,    *)
(* then render() issues a fixed sequence of host (bpy) API calls.          *)
(*                                                                         *)
(* Strings are sequences of one-character strings, so that int() and the   *)
(* truth test of a string are computed, not assumed.  An optional value    *)
(* (None or a value) is a sequence of length 0 or 1.  A command-line word  *)
(* "flag=value" is the record [flag |-> flag, val |-> value].              *)
(* Host API calls are taken to succeed; the only failure the script itself *)
(* provides for is open() of the save path (lines 134-142).                *)
(***************************************************************************)
EXTENDS Integers, Sequences, FiniteSets, TLC

\* ---------------------------------------------------------------- bounds
MaxN == 1          \* numeric option values range over 0..MaxN (and -1)
MaxHostArgs == 1   \* host words between the program name and "--"

\* ------------------------------------------------------- program constants
BgStrengthTenths == 15        \* 1.5, in tenths
SampleMapResolution == 512
ResolutionPercentage == 100
AngleMarginPercent == 95      \* cam_data.angle *= 0.95

\* ------------------------------------------------------ strings and ints
None == <<>>
Some(v) == <<v>>
EmptyStr == <<>>

Digits == <<"0", "1", "2", "3", "4", "5", "6", "7", "8", "9">>

IsDigit(c) == \E i \in 1..10 : Digits[i] = c

DigitVal(c) == (CHOOSE i \in 1..10 : Digits[i] = c) - 1

RECURSIVE DecStr(_)
DecStr(n) ==
    IF n < 10 THEN <<Digits[n + 1]>>
    ELSE Append(DecStr(n \div 10), Digits[(n % 10) + 1])

\* str(n) for an integer n
IntStr(n) == IF n < 0 THEN <<"-">> \o DecStr(0 - n) ELSE DecStr(n)

RECURSIVE DigitsVal(_)
DigitsVal(s) ==
    IF s = <<>> THEN 0
    ELSE 10 * DigitsVal(SubSeq(s, 1, Len(s) - 1)) + DigitVal(s[Len(s)])

AllDigits(s) == s # <<>> /\ \A i \in 1..Len(s) : IsDigit(s[i])

\* does int(s) succeed (argparse type=int)
IsIntStr(s) ==
    /\ s # <<>>
    /\ IF s[1] = "-" THEN AllDigits(Tail(s)) ELSE AllDigits(s)

\* int(s), for s with IsIntStr(s)
ParseInt(s) == IF s[1] = "-" THEN 0 - DigitsVal(Tail(s)) ELSE DigitsVal(s)

\* Python truth value of an optional string / optional int
TruthyStr(o) == o # None /\ o[1] # EmptyStr
TruthyInt(o) == o # None /\ o[1] # 0

\* ----------------------------------------------------------- command line
Word(f, v) == [flag |-> f, val |-> v]
DashDash == Word("--", EmptyStr)
ProgName == Word("blender", EmptyStr)
HostWord == Word("--background", EmptyStr)

PathFlags == {"--fbx", "--hdr", "--save", "--render"}
IntFlags == {"--width", "--height", "--samples"}
OptFlags == PathFlags \cup IntFlags
FlagOrder == <<"--fbx", "--hdr", "--width", "--height", "--samples",
               "--render", "--save">>

\* add_argument(..., dest=...)
Dest(f) ==
    CASE f = "--fbx" -> "fbx_path"
      [] f = "--hdr" -> "hdr_path"
      [] f = "--save" -> "save_path"
      [] f = "--render" -> "render_path"
      [] f = "--width" -> "size_x"
      [] f = "--height" -> "size_y"
      [] f = "--samples" -> "samples"

\* the namespace argparse starts from: every dest is None
EmptyArgs ==
    [fbx_path |-> None, hdr_path |-> None, save_path |-> None,
     render_path |-> None, size_x |-> None, size_y |-> None,
     samples |-> None]

\* parser.parse_args(av): left to right, a later option overrides an earlier
\* one; an unknown word, a word after a bare "--" or a failing int() makes
\* argparse exit.  Result: [ok |-> BOOLEAN, ns |-> namespace].
RECURSIVE ParseFrom(_, _)
ParseFrom(av, ns) ==
    IF av = <<>> THEN [ok |-> TRUE, ns |-> ns]
    ELSE LET w == Head(av) IN
         IF w = DashDash
           THEN [ok |-> Tail(av) = <<>>, ns |-> ns]
         ELSE IF w.flag \in PathFlags
           THEN ParseFrom(Tail(av), [ns EXCEPT ![Dest(w.flag)] = Some(w.val)])
         ELSE IF w.flag \in IntFlags
           THEN IF IsIntStr(w.val)
                  THEN ParseFrom(Tail(av),
                         [ns EXCEPT ![Dest(w.flag)] = Some(ParseInt(w.val))])
                  ELSE [ok |-> FALSE, ns |-> ns]
         ELSE [ok |-> FALSE, ns |-> ns]

ParseArgs(av) == ParseFrom(av, EmptyArgs)

\* '"--" in argv'
HasDash(av) == \E i \in 1..Len(av) : av[i] = DashDash

\* argv.index("--")
DashIndex(av) == CHOOSE i \in 1..Len(av) :
                    av[i] = DashDash /\ \A j \in 1..(i - 1) : av[j] # DashDash

\* mutation: the slice keeps the "--" itself (argv[argv.index("--"):])
ArgsAfterDashKeepDash(av) ==
    IF ~HasDash(av) THEN <<>>
    ELSE SubSeq(av, DashIndex(av), Len(av))

\* lines 157-160: all args after "--", or none when there is no "--"
ArgsAfterDash(av) ==
    IF ~HasDash(av) THEN <<>>
    ELSE SubSeq(av, DashIndex(av) + 1, Len(av))

\* mutation: the test is 'is None' instead of the truth test
FbxMissingOnlyNone(ns) == ns.fbx_path = None

\* line 191: 'not args.fbx_path'
FbxMissing(ns) == ~TruthyStr(ns.fbx_path)

\* ------------------------------------------------------------- messages
MsgHelp == "help"                      \* parser.print_help()
MsgNoFbx == "Error: --fbx_path=\"some file\" argument not given, aborting."
MsgCannotSave == "Cannot save to path"
MsgTraceback == "traceback"            \* traceback.print_exc()
MsgUsageError == "usage error"         \* argparse's own error exit
MsgUnbound == "UnboundLocalError: ok"
MsgFinished == "batch job finished, exiting"

\* ------------------------------------------------------------ host state
\* the world datablock bpy.data.worlds.new() returns
FreshWorld ==
    [use_nodes |-> FALSE, bg_strength_tenths |-> 10, env_image |-> None,
     env_projection |-> None, env_linked_to_bg_color |-> FALSE,
     sample_as_light |-> FALSE, sample_map_resolution |-> 256,
     camera_visible |-> TRUE]

\* mutation: the background strength is left at the host default
HdrWorldDefaultStrength(hdr_path) ==
    [FreshWorld EXCEPT !.use_nodes = TRUE,
                       !.env_image = Some(hdr_path),
                       !.env_projection = Some("MIRROR_BALL"),
                       !.env_linked_to_bg_color = TRUE,
                       !.sample_as_light = TRUE,
                       !.sample_map_resolution = SampleMapResolution,
                       !.camera_visible = FALSE]

\* lines 52-72: the world render_hdr_set builds
HdrWorld(hdr_path) ==
    [FreshWorld EXCEPT !.use_nodes = TRUE,
                       !.bg_strength_tenths = BgStrengthTenths,
                       !.env_image = Some(hdr_path),
                       !.env_projection = Some("MIRROR_BALL"),
                       !.env_linked_to_bg_color = TRUE,
                       !.sample_as_light = TRUE,
                       !.sample_map_resolution = SampleMapResolution,
                       !.camera_visible = FALSE]

\* the scene and datablocks the host hands to the script: a factory-startup
\* scene, or an empty scene with other settings.  world is an index into
\* data.worlds, 0 for no world.
FactoryScene ==
    [camera |-> "Camera", objects |-> {"Camera", "Cube", "Lamp"},
     engine |-> "BLENDER_RENDER", resolution_percentage |-> 50,
     filepath |-> <<"/", "t", "m", "p", "/">>, samples |-> 10,
     color_mode |-> "RGB", film_transparent |-> FALSE,
     resolution_x |-> 1920, resolution_y |-> 1080, world |-> 1]

FactoryData ==
    [cameras |-> {"Camera"}, objects |-> {"Camera", "Cube", "Lamp"},
     worlds |-> <<FreshWorld>>, images |-> {}]

BareScene ==
    [camera |-> "None", objects |-> {},
     engine |-> "CYCLES", resolution_percentage |-> 100,
     filepath |-> EmptyStr, samples |-> 7,
     color_mode |-> "RGBA", film_transparent |-> TRUE,
     resolution_x |-> 640, resolution_y |-> 480, world |-> 0]

BareData ==
    [cameras |-> {}, objects |-> {}, worlds |-> <<>>, images |-> {}]

\* the camera datablock and object lines 106-107 create
NewCamera == [angle |-> 857, rotation_euler_deg |-> None, framed_at |-> None]

\* mutation: the test is 'is not None', so 0 is assigned
ApplyIfNotNone(old, opt) == IF opt # None THEN opt[1] ELSE old

\* lines 93-94, 100-103: 'if v: setting = v'
ApplyIfSet(old, opt) == IF TruthyInt(opt) THEN opt[1] ELSE old

\* lines 91-92
ApplyPath(old, opt) == IF TruthyStr(opt) THEN opt[1] ELSE old

\* a call of the host API, in the order issued
Call(op, arg) == [op |-> op, arg |-> arg]

\* a file on disk: content None is the empty file open(path, 'w') leaves
File(path, content) == [path |-> path, content |-> content]
WriteFile(fs, path, content) ==
    {f \in fs : f.path # path} \cup {File(path, content)}

\* --------------------------------------------------------- program order
\* mutation: the import is issued before the camera is created
SuccImportFirst(p) ==
    CASE p = "clear" -> "settings"
      [] p = "settings" -> "import"
      [] p = "import" -> "camera"
      [] p = "camera" -> "frame"
      [] p = "frame" -> "hdr"
      [] p = "hdr" -> "save_open"
      [] p = "save_open" -> "save"
      [] p = "save" -> "render"
      [] p = "render" -> "finish"

\* the statement that follows each statement group of render()
Succ(p) ==
    CASE p = "clear" -> "settings"
      [] p = "settings" -> "camera"
      [] p = "camera" -> "import"
      [] p = "import" -> "frame"
      [] p = "frame" -> "hdr"
      [] p = "hdr" -> "save_open"
      [] p = "save_open" -> "save"
      [] p = "save" -> "render"
      [] p = "render" -> "finish"

RenderPcs == {"clear", "settings", "camera", "import", "frame", "hdr",
              "save_open", "save", "render"}

\* mutation: ok is bound to True before the try block
OkBeforeTryTrue == Some(TRUE)

\* line 134: ok is not bound before the try block
OkBeforeTry == None

\* ------------------------------------------------------------ the inputs
PathVals(f) ==
    CASE f = "--fbx" -> {EmptyStr, <<"m">>}
      [] f = "--hdr" -> {EmptyStr, <<"h">>}
      [] f = "--save" -> {EmptyStr, <<"s">>}
      [] f = "--render" -> {EmptyStr, <<"r">>}

\* values given to --width, --height, --samples; "x" is not an integer
IntVals == {IntStr(n) : n \in (0 - 1)..MaxN}
WidthVals == IntVals \cup {<<"x">>}

OptVals(f) ==
    IF f \in PathFlags THEN PathVals(f)
    ELSE IF f = "--width" THEN WidthVals ELSE IntVals

Opt(S) == {None} \cup {Some(v) : v \in S}

\* a choice of options: each one absent (None) or given with one value
OptChoices ==
    [fbx_path : Opt(OptVals("--fbx")), hdr_path : Opt(OptVals("--hdr")),
     save_path : Opt(OptVals("--save")), render_path : Opt(OptVals("--render")),
     size_x : Opt(OptVals("--width")), size_y : Opt(OptVals("--height")),
     samples : Opt(OptVals("--samples"))]

\* the words "flag=value" of a choice, from flag number i on
RECURSIVE OptWords(_, _)
OptWords(c, i) ==
    IF i > Len(FlagOrder) THEN <<>>
    ELSE LET f == FlagOrder[i] IN
         (IF c[Dest(f)] = None THEN <<>> ELSE <<Word(f, c[Dest(f)][1])>>)
         \o OptWords(c, i + 1)

HostWords(h) == <<ProgName>> \o [i \in 1..h |-> HostWord]

\* the command lines: without "--", or with "--" followed by options
CommandLines ==
    {HostWords(h) : h \in 0..MaxHostArgs}
    \cup {HostWords(h) \o <<DashDash>> \o OptWords(c, 1) :
            h \in 0..MaxHostArgs, c \in OptChoices}

\* ---------------------------------------------------------------- state
VARIABLES
    sys_argv,   \* sys.argv
    argv,       \* main's local argv
    args,       \* the parsed namespace
    pc,         \* the statement about to run
    stdout,     \* what has been printed
    ok,         \* render's local ok: None while unbound
    scene,      \* bpy.context.scene
    data,       \* bpy.data
    cam,        \* the camera render() creates: None before it exists
    files,      \* files written
    calls       \* host API calls issued, in order

vars == <<sys_argv, argv, args, pc, stdout, ok, scene, data, cam, files, calls>>

Init ==
    /\ sys_argv \in CommandLines
    /\ argv = sys_argv
    /\ args = EmptyArgs
    /\ pc = "start"
    /\ stdout = <<>>
    /\ ok = OkBeforeTry
    /\ \/ scene = FactoryScene /\ data = FactoryData
       \/ scene = BareScene /\ data = BareData
    /\ cam = None
    /\ files = {}
    /\ calls = <<>>

\* ------------------------------------------------------------------ main
\* lines 155-160
MainSliceArgv ==
    /\ pc = "start"
    /\ argv' = ArgsAfterDash(sys_argv)
    /\ pc' = "parse"
    /\ UNCHANGED <<sys_argv, args, stdout, ok, scene, data, cam, files, calls>>

\* line 185: parse_args either fills args or prints a usage error and exits
MainParse ==
    /\ pc = "parse"
    /\ LET r == ParseArgs(argv) IN
         IF r.ok
           THEN /\ args' = r.ns
                /\ pc' = "check"
                /\ stdout' = stdout
           ELSE /\ args' = args
                /\ pc' = "exit"
                /\ stdout' = Append(stdout, MsgUsageError)
    /\ UNCHANGED <<sys_argv, argv, ok, scene, data, cam, files, calls>>

\* lines 187-189
MainNoArgs ==
    /\ pc = "check"
    /\ argv = <<>>
    /\ stdout' = Append(stdout, MsgHelp)
    /\ pc' = "returned"
    /\ UNCHANGED <<sys_argv, argv, args, ok, scene, data, cam, files, calls>>

\* lines 191-194
MainNoFbx ==
    /\ pc = "check"
    /\ argv # <<>>
    /\ FbxMissing(args)
    /\ stdout' = stdout \o <<MsgNoFbx, MsgHelp>>
    /\ pc' = "returned"
    /\ UNCHANGED <<sys_argv, argv, args, ok, scene, data, cam, files, calls>>

\* lines 197-200: the call of render()
MainCallRender ==
    /\ pc = "check"
    /\ argv # <<>>
    /\ ~FbxMissing(args)
    /\ pc' = "clear"
    /\ UNCHANGED <<sys_argv, argv, args, stdout, ok, scene, data, cam, files,
                   calls>>

\* line 202
MainFinish ==
    /\ pc = "finish"
    /\ stdout' = Append(stdout, MsgFinished)
    /\ pc' = "done"
    /\ UNCHANGED <<sys_argv, argv, args, ok, scene, data, cam, files, calls>>

\* ---------------------------------------------------------------- render
\* lines 83-85: unset the camera, unlink every object of the scene
RenderClear ==
    /\ pc = "clear"
    /\ scene' = [scene EXCEPT !.camera = "None", !.objects = {}]
    /\ calls' = Append(calls, Call("scene.objects.unlink", EmptyStr))
    /\ pc' = Succ(pc)
    /\ UNCHANGED <<sys_argv, argv, args, stdout, ok, data, cam, files>>

\* lines 87-103
RenderSettings ==
    /\ pc = "settings"
    /\ scene' = [scene EXCEPT
                   !.engine = "CYCLES",
                   !.resolution_percentage = ResolutionPercentage,
                   !.filepath = ApplyPath(@, args.render_path),
                   !.samples = ApplyIfSet(@, args.samples),
                   !.color_mode = "RGBA",
                   !.film_transparent = TRUE,
                   !.resolution_x = ApplyIfSet(@, args.size_x),
                   !.resolution_y = ApplyIfSet(@, args.size_y)]
    /\ calls' = Append(calls, Call("scene.render.settings", EmptyStr))
    /\ pc' = Succ(pc)
    /\ UNCHANGED <<sys_argv, argv, args, stdout, ok, data, cam, files>>

\* lines 106-112
RenderCamera ==
    /\ pc = "camera"
    /\ data' = [data EXCEPT !.cameras = @ \cup {"MyCam"},
                            !.objects = @ \cup {"MyCam"}]
    /\ scene' = [scene EXCEPT !.objects = @ \cup {"MyCam"},
                              !.camera = "MyCam"]
    /\ cam' = Some([NewCamera EXCEPT
                      !.rotation_euler_deg = Some(<<60, 0, 170>>)])
    /\ calls' = Append(calls, Call("data.cameras.new", EmptyStr))
    /\ pc' = Succ(pc)
    /\ UNCHANGED <<sys_argv, argv, args, stdout, ok, files>>

\* lines 115-120: the importer links the model's objects into the scene
RenderImport ==
    /\ pc = "import"
    /\ data' = [data EXCEPT !.objects = @ \cup {"Model"}]
    /\ scene' = [scene EXCEPT !.objects = @ \cup {"Model"}]
    /\ calls' = Append(calls, Call("import_scene.fbx", args.fbx_path[1]))
    /\ pc' = Succ(pc)
    /\ UNCHANGED <<sys_argv, argv, args, stdout, ok, cam, files>>

\* lines 123-126: the camera is framed at 0.95 of its angle on what the
\* scene holds besides the camera, and the angle is restored
RenderFrame ==
    /\ pc = "frame"
    /\ cam' = IF cam = None THEN cam
              ELSE Some([cam[1] EXCEPT !.framed_at =
                     Some([angle |-> (cam[1].angle * AngleMarginPercent) \div 100,
                           on |-> scene.objects \ {"MyCam"}])])
    /\ calls' = Append(calls,
                       Call("view3d.camera_to_view_selected", EmptyStr))
    /\ pc' = Succ(pc)
    /\ UNCHANGED <<sys_argv, argv, args, stdout, ok, scene, data, files>>

\* lines 128-129 with render_hdr_set, lines 51-72
RenderHdr ==
    /\ pc = "hdr"
    /\ IF TruthyStr(args.hdr_path)
         THEN /\ data' = [data EXCEPT
                            !.worlds = Append(@, HdrWorld(args.hdr_path[1])),
                            !.images = @ \cup {args.hdr_path[1]}]
              /\ scene' = [scene EXCEPT !.world = Len(data.worlds) + 1]
              /\ calls' = Append(calls,
                                 Call("data.worlds.new", args.hdr_path[1]))
         ELSE UNCHANGED <<data, scene, calls>>
    /\ pc' = Succ(pc)
    /\ UNCHANGED <<sys_argv, argv, args, stdout, ok, cam, files>>

\* lines 133-142: open(save_path, 'w') succeeds, leaving an empty file and
\* binding ok, or fails, printing the message and the traceback
RenderSaveOpen ==
    /\ pc = "save_open"
    /\ IF TruthyStr(args.save_path)
         THEN \/ /\ files' = WriteFile(files, args.save_path[1], None)
                 /\ ok' = Some(TRUE)
                 /\ stdout' = stdout
                 /\ pc' = Succ(pc)
              \/ /\ files' = files
                 /\ ok' = ok
                 /\ stdout' = stdout \o <<MsgCannotSave, MsgTraceback>>
                 /\ pc' = Succ(pc)
         ELSE /\ pc' = Succ(Succ(pc))
              /\ UNCHANGED <<files, ok, stdout>>
    /\ UNCHANGED <<sys_argv, argv, args, scene, data, cam, calls>>

\* lines 144-145: 'if ok:' reads ok; unbound, it raises UnboundLocalError
\* and the script ends there
RenderSave ==
    /\ pc = "save"
    /\ IF ok = None
         THEN /\ stdout' = Append(stdout, MsgUnbound)
              /\ pc' = "crashed"
              /\ UNCHANGED <<files, calls>>
         ELSE /\ IF ok[1]
                   THEN /\ files' = WriteFile(files, args.save_path[1],
                              Some([kind |-> "blend", scene |-> scene,
                                    data |-> data, cam |-> cam]))
                        /\ calls' = Append(calls,
                              Call("wm.save_as_mainfile", args.save_path[1]))
                   ELSE UNCHANGED <<files, calls>>
              /\ stdout' = stdout
              /\ pc' = Succ(pc)
    /\ UNCHANGED <<sys_argv, argv, args, ok, scene, data, cam>>

\* lines 147-148: the still image goes to scene.render.filepath
RenderRender ==
    /\ pc = "render"
    /\ IF TruthyStr(args.render_path)
         THEN /\ files' = WriteFile(files, scene.filepath,
                    Some([kind |-> "image", scene |-> scene,
                          data |-> data, cam |-> cam]))
              /\ calls' = Append(calls, Call("render.render", scene.filepath))
         ELSE UNCHANGED <<files, calls>>
    /\ pc' = Succ(pc)
    /\ UNCHANGED <<sys_argv, argv, args, stdout, ok, scene, data, cam>>

Next ==
    \/ MainSliceArgv
    \/ MainParse
    \/ MainNoArgs
    \/ MainNoFbx
    \/ MainCallRender
    \/ MainFinish
    \/ RenderClear
    \/ RenderSettings
    \/ RenderCamera
    \/ RenderImport
    \/ RenderFrame
    \/ RenderHdr
    \/ RenderSaveOpen
    \/ RenderSave
    \/ RenderRender

Spec == Init /\ [][Next]_vars

\* ------------------------------------------------------------ properties
CountIn(cs, op) == Cardinality({i \in 1..Len(cs) : cs[i].op = op})
Printed(out, m) == \E i \in 1..Len(out) : out[i] = m

\* the words of sys.argv after the first "--"
WordsAfterDash == {sys_argv[i] : i \in (DashIndex(sys_argv) + 1)..Len(sys_argv)}

NoDashOrNothingAfter ==
    \/ ~HasDash(sys_argv)
    \/ DashIndex(sys_argv) = Len(sys_argv)

NoFbxSupplied ==
    /\ HasDash(sys_argv)
    /\ DashIndex(sys_argv) < Len(sys_argv)
    /\ \A w \in WordsAfterDash : w.flag = "--fbx" => w.val = EmptyStr

HostUntouched ==
    /\ scene' = scene
    /\ data' = data
    /\ cam' = cam
    /\ files' = files
    /\ calls' = <<>>

C1_NoArgsHelpOnly_Step ==
    NoDashOrNothingAfter =>
         /\ HostUntouched
         /\ pc' \in {"parse", "check", "returned"}
         /\ ~Printed(stdout', MsgFinished)
         /\ (pc' = "returned" => stdout' = <<MsgHelp>>)

\* C1: with no "--" in the argument list, or nothing after the first "--",
\* every step leaves the scene, the datablocks and the files as they were
\* and issues no host call, render() is never entered, the finishing message
\* is never printed, and main returns having printed exactly the help text.
C1_NoArgsHelpOnly == [][C1_NoArgsHelpOnly_Step]_vars

C1_Witness ==
    /\ HasDash(sys_argv)
    /\ DashIndex(sys_argv) = Len(sys_argv)
    /\ pc = "returned"
    /\ stdout = <<MsgHelp>>

C2_NoFbxNoRender_Step ==
    NoFbxSupplied =>
         /\ HostUntouched
         /\ pc' \in {"parse", "check", "returned", "exit"}
         /\ (pc' = "returned" => stdout' = <<MsgNoFbx, MsgHelp>>)
         /\ (pc' = "exit" =>
               \E w \in WordsAfterDash :
                  w.flag \in IntFlags /\ ~IsIntStr(w.val))

\* C2: with words after "--" but no --fbx word carrying a non-empty value,
\* whatever the other options are, every step leaves the scene, the
\* datablocks and the files as they were and issues no host call, render()
\* is never entered, and main returns having printed the error and then the
\* help text (argparse itself exits only on a width that is not an integer).
C2_NoFbxNoRender == [][C2_NoFbxNoRender_Step]_vars

C2_Witness ==
    /\ NoFbxSupplied
    /\ args.fbx_path = Some(EmptyStr)
    /\ TruthyStr(args.save_path)
    /\ TruthyStr(args.render_path)
    /\ TruthyStr(args.hdr_path)
    /\ TruthyInt(args.size_x)
    /\ pc = "returned"

\* C3: when a run that entered render() has ended, the host render call was
\* issued exactly when a non-empty --render path was given, never more than
\* once, and it was issued with the scene's output path equal to that path.
C3_RenderIffRequested ==
    /\ CountIn(calls, "render.render") <= 1
    /\ \A i \in 1..Len(calls) :
          calls[i].op = "render.render" =>
             /\ TruthyStr(args.render_path)
             /\ calls[i].arg = args.render_path[1]
             /\ scene.filepath = args.render_path[1]
    /\ (pc \in {"finish", "done", "crashed"} =>
          (CountIn(calls, "render.render") = 1 <=> TruthyStr(args.render_path)))

\* C4: the host save call is never issued without a non-empty --save path,
\* never issued after open() of the save path failed, never issued more than
\* once, and when issued it carries exactly the --save path.
C4_SaveOnlyWhenOpened ==
    /\ CountIn(calls, "wm.save_as_mainfile") <= 1
    /\ (~TruthyStr(args.save_path) => CountIn(calls, "wm.save_as_mainfile") = 0)
    /\ (Printed(stdout, MsgCannotSave) =>
          CountIn(calls, "wm.save_as_mainfile") = 0)
    /\ \A i \in 1..Len(calls) :
          calls[i].op = "wm.save_as_mainfile" =>
             calls[i].arg = args.save_path[1]

C4_Witness ==
    /\ pc = "done"
    /\ CountIn(calls, "wm.save_as_mainfile") = 1
    /\ \E f \in files : f.path = args.save_path[1] /\ f.content # None

AtSaveOrRender == {"save_open", "save", "render"}

C5_AnyIntegerApplied_Step ==
    /\ (pc' \in AtSaveOrRender /\ args'.size_x # None) =>
          scene'.resolution_x = args'.size_x[1]
    /\ (pc' \in AtSaveOrRender /\ args'.size_y # None) =>
          scene'.resolution_y = args'.size_y[1]
    /\ (pc' \in AtSaveOrRender /\ args'.samples # None) =>
          scene'.samples = args'.samples[1]
    /\ (pc \in RenderPcs /\ args.size_x = None) =>
          scene'.resolution_x = scene.resolution_x
    /\ (pc \in RenderPcs /\ args.size_y = None) =>
          scene'.resolution_y = scene.resolution_y
    /\ (pc \in RenderPcs /\ args.samples = None) =>
          scene'.samples = scene.samples

\* C5 as stated: an option given with any integer N, 0 included, is the
\* scene's value when the save and render steps run; an option not given
\* leaves the scene's value as it was when render() was entered.
C5_AnyIntegerApplied == [][C5_AnyIntegerApplied_Step]_vars

C5_NonZeroApplied_Step ==
    /\ (pc' \in AtSaveOrRender /\ TruthyInt(args'.size_x)) =>
          scene'.resolution_x = args'.size_x[1]
    /\ (pc' \in AtSaveOrRender /\ TruthyInt(args'.size_y)) =>
          scene'.resolution_y = args'.size_y[1]
    /\ (pc' \in AtSaveOrRender /\ TruthyInt(args'.samples)) =>
          scene'.samples = args'.samples[1]
    /\ (pc \in RenderPcs /\ ~TruthyInt(args.size_x)) =>
          scene'.resolution_x = scene.resolution_x
    /\ (pc \in RenderPcs /\ ~TruthyInt(args.size_y)) =>
          scene'.resolution_y = scene.resolution_y
    /\ (pc \in RenderPcs /\ ~TruthyInt(args.samples)) =>
          scene'.samples = scene.samples

\* C5 amended: an option given with a non-zero integer N is the scene's
\* value when the save and render steps run; an option not given, or given
\* as 0, leaves the scene's value as it was when render() was entered.
C5_NonZeroApplied == [][C5_NonZeroApplied_Step]_vars

C5_Witness ==
    /\ pc = "render"
    /\ args.size_x = Some(0)
    /\ scene.resolution_x = FactoryScene.resolution_x
    /\ args.size_y = None
    /\ scene.resolution_y = FactoryScene.resolution_y
    /\ args.samples = Some(MaxN)
    /\ scene.samples = MaxN

\* the fixed order of the host steps
ApiOrder ==
    <<"scene.objects.unlink", "scene.render.settings", "data.cameras.new",
      "import_scene.fbx", "view3d.camera_to_view_selected",
      "data.worlds.new", "wm.save_as_mainfile", "render.render">>

Rank(op) == CHOOSE i \in 1..Len(ApiOrder) : ApiOrder[i] = op

Issued(op) == CountIn(calls, op) = 1

\* C6: the host steps are issued in the one fixed order, none twice; once
\* render() has ended the five unconditional steps have all been issued;
\* the scene is cleared of what it held; the camera exists and is active
\* before the import, the import precedes the framing, the HDR set-up (when
\* requested) precedes the save and the render; and a saved scene file holds
\* the framed active camera, the imported model and the HDR world.
C6_FixedOrder ==
    /\ \A i, j \in 1..Len(calls) :
          i < j => Rank(calls[i].op) < Rank(calls[j].op)
    /\ (pc \in {"finish", "done", "crashed"} =>
          \A k \in 1..5 : Issued(ApiOrder[k]))
    /\ (Issued("scene.objects.unlink") =>
          scene.objects \subseteq {"MyCam", "Model"})
    /\ (Issued("import_scene.fbx") =>
          /\ Issued("data.cameras.new")
          /\ scene.camera = "MyCam"
          /\ {"MyCam", "Model"} \subseteq scene.objects)
    /\ (Issued("view3d.camera_to_view_selected") =>
          /\ Issued("import_scene.fbx")
          /\ cam # None
          /\ cam[1].framed_at # None
          /\ "Model" \in cam[1].framed_at[1].on)
    /\ ((Issued("wm.save_as_mainfile") \/ Issued("render.render")) =>
          /\ Issued("view3d.camera_to_view_selected")
          /\ (TruthyStr(args.hdr_path) => Issued("data.worlds.new")))
    /\ \A f \in files :
          (f.content # None /\ f.content[1].kind = "blend") =>
             LET c == f.content[1] IN
               /\ c.scene.camera = "MyCam"
               /\ {"MyCam", "Model"} \subseteq c.scene.objects
               /\ c.cam # None
               /\ c.cam[1].framed_at # None
               /\ (TruthyStr(args.hdr_path) =>
                     /\ c.scene.world \in 1..Len(c.data.worlds)
                     /\ c.data.worlds[c.scene.world].env_image = args.hdr_path)

C6_Witness ==
    /\ pc = "done"
    /\ Len(calls) = Len(ApiOrder)
    /\ \A k \in 1..Len(ApiOrder) : calls[k].op = ApiOrder[k]
    /\ \E f \in files : f.content # None /\ f.content[1].kind = "blend"

AfterHdr == {"save_open", "save", "render", "finish", "done", "crashed"}

C7_HdrWorld_Step ==
    pc \in RenderPcs =>
         /\ IF pc = "hdr" /\ TruthyStr(args.hdr_path)
              THEN /\ Len(data'.worlds) = Len(data.worlds) + 1
                   /\ SubSeq(data'.worlds, 1, Len(data.worlds)) = data.worlds
                   /\ scene'.world = Len(data'.worlds)
                   /\ args.hdr_path[1] \in data'.images
                   /\ LET w == data'.worlds[scene'.world] IN
                        /\ w.use_nodes
                        /\ w.bg_strength_tenths = 15
                        /\ w.env_image = args.hdr_path
                        /\ w.env_linked_to_bg_color
                        /\ w.sample_map_resolution = 512
                        /\ w.sample_as_light
                        /\ ~w.camera_visible
              ELSE /\ scene'.world = scene.world
                   /\ data'.worlds = data.worlds
         /\ (pc' \in AfterHdr =>
               (CountIn(calls', "data.worlds.new") = 1
                  <=> TruthyStr(args.hdr_path)))

\* C7: the HDR set-up runs exactly when a non-empty --hdr path was given.
\* The step that runs it adds one world to the datablocks and makes it the
\* scene's world, with background strength 1.5, the image loaded from the
\* --hdr path in an environment texture linked to the background colour,
\* map resolution 512, sampling as light on and camera visibility off; no
\* other step of render() changes the scene's world or any world.
C7_HdrWorld == [][C7_HdrWorld_Step]_vars

C7_Witness ==
    /\ pc = "done"
    /\ TruthyStr(args.hdr_path)
    /\ Len(data.worlds) = 2
    /\ scene.world = 2
    /\ data.worlds[2].bg_strength_tenths = 15
    /\ data.worlds[1] = FreshWorld

====
